---- MODULE Spec2Model ----
(***************************************************************************)
(* Model of scripts/image.py of ImageGuessr: the catalog (models, games,   *)
(* files, file_pairs), the blob store, the pair pipeline                   *)
(* (process_image_pair), the per-day driver (process_images_for_game),     *)
(* the command entry point (--create-week, --create-day, single URL) and   *)
(* source discovery (scrape_unsplash_category,                             *)
(* scrape_images_from_random_categories).                                  *)
(*                                                                         *)
(* External collaborators (HTTP fetch, vision/generation model, blob       *)
(* store, database, browser) answer nondeterministically.  A database      *)
(* insert is atomic: it either adds the row and returns it, or raises and  *)
(* adds nothing.  Every abnormal answer of a collaborator consumes one     *)
(* unit of the fault budget MaxFaults.                                     *)
(***************************************************************************)
EXTENDS Integers, Sequences, FiniteSets, TLC

\* ---------------------------------------------------------------- bounds
MaxFaults == 1
MaxInvocations == 2
MaxPerDay == 2
MaxCount == 2
NumUrls == 2
MaxNeeded == 2
MaxPerCategory == 2
MaxCallers == 2

\* ------------------------------------------------------ program constants
NumDays == 7
DefaultStartOffset == 2
GeneratorName == "Gemini 2.5 Flash Image"

\* Python's None for ids (falsy), and for the prompt column.
None == 0
NoPrompt == <<"None">>

\* The calendar day of datetime.now(), as a day number.
Today == 0

VARIABLES
    models,       \* table models(id, name)
    games,        \* table games(id, date)
    files,        \* table files(id, url, source_type, source_id, prompt)
    file_pairs,   \* table file_pairs(id, real_file_id, generated_file_id, game_id, votes)
    blobs,        \* blob store: the set of stored filenames (timestamps)
    clock,        \* time.time() * 1000
    m,            \* frame of __main__
    g,            \* frame of process_images_for_game
    p,            \* frame of process_image_pair
    faults,       \* abnormal collaborator answers so far
    invocations,  \* command invocations so far
    attempts,     \* history: pipeline runs started per pool position
    returned_ids, \* history: <<table, key, id>> returned by get_or_create_*
    sr,           \* frame of scrape_images_from_random_categories
    sc,           \* frame of scrape_unsplash_category
    events,       \* history of one invocation: <<"game" | "nogame", date>>,
                  \* <<"run" | "end", pool position>>, <<"sleep", seconds>>
    callers,      \* frames of get_or_create_* calls made by concurrent processes
    ap            \* frame and stores of add_image_pair.py's process_image_pair

catalog == <<models, games, files, file_pairs>>
scrape == <<sr, sc>>
vars == <<models, games, files, file_pairs, blobs, clock, m, g, p, faults,
          invocations, attempts, returned_ids, sr, sc, events, callers, ap>>

\* ------------------------------------------------------- Python helpers
\* Python clamps slice indices: s[a:b].
PyIndex(i, n) ==
    IF i < 0 THEN (IF i + n < 0 THEN 0 ELSE i + n)
    ELSE (IF i > n THEN n ELSE i)

PySlice(s, a, b) ==
    LET lo == PyIndex(a, Len(s))
        hi == PyIndex(b, Len(s))
    IN IF lo >= hi THEN <<>> ELSE SubSeq(s, lo + 1, hi)

\* `if x:` on an id.
Truthy(x) == x # None

\* str.strip() on a text, a sequence of characters.
RECURSIVE LStrip(_)
LStrip(t) ==
    IF t = <<>> THEN <<>>
    ELSE IF Head(t) = " " THEN LStrip(Tail(t)) ELSE t

RECURSIVE RStrip(_)
RStrip(t) ==
    IF t = <<>> THEN <<>>
    ELSE IF t[Len(t)] = " " THEN RStrip(SubSeq(t, 1, Len(t) - 1)) ELSE t

Strip(t) == RStrip(LStrip(t))

\* An opaque source image URL, and the public URL of a stored blob.
Url(i) == <<"src", i>>
BlobUrl(filename) == <<"blob", filename>>

\* response.text before the vision model has answered (history only).
NoText == <<"None">>

\* response.text of the vision model: the usual answer, and the degenerate ones.
NominalText == <<"a", " ">>
DegenerateTexts == {<<>>, <<" ">>}

\* -------------------------------------------------------------- catalog
\* supabase.table(...).select("id").eq(column, key): matching ids in row order.
SelectModel(model_name) ==
    SelectSeq(models, LAMBDA r : r.name = model_name)

\* A select on the wrong column: .eq("id", game_date).
SelectGameByIdColumn(game_date) ==
    SelectSeq(games, LAMBDA r : r.id = game_date)

SelectGame(game_date) ==
    SelectSeq(games, LAMBDA r : r.date = game_date)

ModelRow(model_name) == [id |-> Len(models) + 1, name |-> model_name]

GameRow(game_date) == [id |-> Len(games) + 1, date |-> game_date]

FileRow(url, source_type, source_id, prompt) ==
    [id |-> Len(files) + 1, url |-> url, source_type |-> source_type,
     source_id |-> source_id, prompt |-> prompt]

FilePairRow(real_file_id, generated_file_id, game_id) ==
    [id |-> Len(file_pairs) + 1, real_file_id |-> real_file_id,
     generated_file_id |-> generated_file_id, game_id |-> game_id,
     real_vote_count |-> 0, generated_vote_count |-> 0]

\* The sizes of the stores, taken when a call starts (history only).
Snapshot ==
    [models |-> Len(models), games |-> Len(games), files |-> Len(files),
     file_pairs |-> Len(file_pairs), blobs |-> blobs]

\* ------------------------------------------------------- fault budget
Fault == faults < MaxFaults /\ faults' = faults + 1
NoFault == faults' = faults

\* --------------------------------------------------------------- frames
IdleP ==
    [pc |-> "idle", real_image_url |-> Url(0), game_id |-> None,
     prompt |-> NoPrompt, generated_image_public_url |-> BlobUrl(0),
     model_id |-> None, real_file_id |-> None, generated_file_id |-> None,
     result |-> [none |-> TRUE], error |-> "none", steps |-> <<>>,
     pre |-> [none |-> TRUE], text |-> NoText, fetches |-> 0, ops |-> <<>>]

IdleG ==
    [pc |-> "idle", game_date |-> 0, image_urls |-> <<>>, game_id |-> None,
     img_idx |-> 0, processed_count |-> 0, failed_count |-> 0,
     base |-> 0, ok_runs |-> 0, pre |-> [none |-> TRUE]]

IdleM ==
    [pc |-> "start", mode |-> "none", exit_code |-> 0, all_image_urls |-> <<>>,
     images_per_day |-> 0, week_dates |-> <<>>, day_idx |-> 0,
     total_processed |-> 0, total_failed |-> 0, failed_days |-> {},
     argv |-> <<>>, reached |-> "none",
     results |-> <<>>, cat_idx |-> 0, idx |-> 0]

\* No call of add_image_pair.py's process_image_pair yet.
IdleAP ==
    [pc |-> "idle", real_image_url |-> Url(0), prompt |-> NoPrompt,
     generated_image_public_url |-> BlobUrl(0), model_id |-> None,
     real_file_id |-> None, generated_file_id |-> None,
     result |-> [none |-> TRUE], error |-> "none", steps |-> <<>>, ops |-> <<>>,
     models |-> <<>>, files |-> <<>>, blobs |-> {}, clock |-> 1]

IdleSR ==
    [pc |-> "idle", total_needed |-> 0, categories |-> <<>>, next |-> 0,
     all_image_urls |-> <<>>, used_categories |-> <<>>, result |-> <<>>]

IdleSC ==
    [pc |-> "idle", category_url |-> <<"t", "none">>, max_images |-> 0,
     existing_urls |-> {}, image_urls |-> {}, scroll_count |-> 0,
     driver |-> "none", quits |-> 0, result |-> <<>>, read_failed |-> FALSE]

Init ==
    /\ models = <<>>
    /\ games = <<>>
    /\ files = <<>>
    /\ file_pairs = <<>>
    /\ blobs = {}
    /\ clock = 1
    /\ m = IdleM
    /\ g = IdleG
    /\ p = IdleP
    /\ faults = 0
    /\ invocations = 0
    /\ attempts = <<>>
    /\ events = <<>>
    /\ callers = <<>>
    /\ ap = IdleAP
    /\ returned_ids = {}
    /\ sr = IdleSR
    /\ sc = IdleSC

\* ------------------------------------------------- process_image_pair
\* The call process_image_pair(real_image_url, game_id).
CallPair(real_image_url, game_id) ==
    [IdleP EXCEPT !.pc = "download", !.real_image_url = real_image_url,
                  !.game_id = game_id, !.pre = Snapshot]

\* The model record resolved before the upload.
StepAfterModelFirst(pc) ==
    CASE pc = "download" -> "describe"
      [] pc = "describe" -> "generate"
      [] pc = "generate" -> "model"
      [] pc = "model" -> "upload"
      [] pc = "upload" -> "insert_real"
      [] pc = "insert_real" -> "insert_generated"
      [] pc = "insert_generated" -> "file_pair"
      [] pc = "file_pair" -> "returned"

\* The statements of the try block, in program order.
StepAfter(pc) ==
    CASE pc = "download" -> "describe"
      [] pc = "describe" -> "generate"
      [] pc = "generate" -> "upload"
      [] pc = "upload" -> "model"
      [] pc = "model" -> "insert_real"
      [] pc = "insert_real" -> "insert_generated"
      [] pc = "insert_generated" -> "file_pair"
      [] pc = "file_pair" -> "returned"

\* The number the source gives to each step ("Step 1" .. "Step 7").
StepNo(pc) ==
    CASE pc = "download" -> 1
      [] pc = "describe" -> 2
      [] pc = "generate" -> 3
      [] pc = "upload" -> 4
      [] pc = "model" -> 5
      [] pc = "insert_real" -> 6
      [] pc = "insert_generated" -> 6
      [] pc = "file_pair" -> 7

\* History: the steps the current run has entered.
Entered(f) ==
    IF f.steps # <<>> /\ f.steps[Len(f.steps)] = StepNo(f.pc)
    THEN f.steps
    ELSE Append(f.steps, StepNo(f.pc))

\* The step completes and the run goes on to the next statement.
Proceed(f) == [f EXCEPT !.pc = StepAfter(f.pc), !.steps = Entered(f)]

\* The step raises: `except Exception as error: ... raise`.
Raise(f, error) == [f EXCEPT !.pc = "raised", !.error = error, !.steps = Entered(f)]

\* History: one more call of download_image in the run.
Fetched(f) == [f EXCEPT !.fetches = @ + 1]

\* generate_image_description(image_url) begins with download_image(image_url).
DescribeFetch(f) == Fetched(f)

\* description = response.text; prompt = description.strip(), whatever it is.
Described(f, text) == [Proceed(f) EXCEPT !.text = text, !.prompt = Strip(text)]

\* The instruction text generate_image_description sends with the image.
DescriptionRequest == "change the main subject; mention the editing style"

\* History: one operation on an external collaborator: what was asked, what
\* was sent and how the collaborator answered.
Did(f, op, arg, out) == [f EXCEPT !.ops = Append(@, <<op, arg, out>>)]

\* History: the two operations of generate_image_description once its
\* download succeeded: the download and the vision-model request.
DidDescribe(f, out) ==
    Did(Did(f, "download", f.real_image_url, "ok"), "describe", DescriptionRequest, out)

\* The data dict insert_file_record sends for a row.
FileData(row) == <<row.url, row.source_type, row.source_id, row.prompt>>

PipeFrame == UNCHANGED <<m, g, invocations, attempts, events, scrape, callers, ap>>

\* Step 1: download_image(real_image_url).
PIP_Download ==
    /\ p.pc = "download"
    /\ \/ NoFault /\ p' = Did(Fetched(Proceed(p)), "download", p.real_image_url, "ok")
       \/ Fault /\ p' = Did(Fetched(Raise(p, "fetch")), "download", p.real_image_url, "fail")
    /\ UNCHANGED <<catalog, blobs, clock, returned_ids>>
    /\ PipeFrame

\* Step 2: generate_image_description(real_image_url): downloads the image
\* again, calls the vision model and returns response.text.strip().
PIP_Describe ==
    /\ p.pc = "describe"
    /\ \/ \* image_bytes = download_image(image_url) raises
          Fault /\ p' = Did(DescribeFetch(Raise(p, "fetch")),
                             "download", p.real_image_url, "fail")
       \/ \* generate_content raises, or response.text is None
          Fault /\ p' = DidDescribe(DescribeFetch(Raise(p, "describe")), NoText)
       \/ /\ NoFault
          /\ p' = DidDescribe(DescribeFetch(Described(p, NominalText)), NominalText)
       \/ \E text \in DegenerateTexts :
            /\ Fault
            /\ p' = DidDescribe(DescribeFetch(Described(p, text)), text)
    /\ UNCHANGED <<catalog, blobs, clock, returned_ids>>
    /\ PipeFrame

\* Step 3: generate_image_with_imagen(prompt).
PIP_Generate ==
    /\ p.pc = "generate"
    /\ \/ NoFault /\ p' = Did(Proceed(p), "generate", p.prompt, "ok")
       \/ Fault /\ p' = Did(Raise(p, "generate"), "generate", p.prompt, "fail")
    /\ UNCHANGED <<catalog, blobs, clock, returned_ids>>
    /\ PipeFrame

\* Step 4: upload_to_vercel_blob(bytes, "generated-<timestamp>.jpg").
PIP_Upload ==
    /\ p.pc = "upload"
    /\ clock' = clock + 1
    /\ LET generated_image_filename == clock IN
       \/ /\ NoFault
          /\ blobs' = blobs \cup {generated_image_filename}
          /\ p' = Did([Proceed(p) EXCEPT !.generated_image_public_url =
                                             BlobUrl(generated_image_filename)],
                       "upload", generated_image_filename, "ok")
       \/ \* status code not in (200, 201)
          /\ Fault
          /\ blobs' = blobs
          /\ p' = Did(Raise(p, "publish"), "upload", generated_image_filename, "rejected")
       \/ \* stored, but no "url" in the response body
          /\ Fault
          /\ blobs' = blobs \cup {generated_image_filename}
          /\ p' = Did(Raise(p, "publish"), "upload", generated_image_filename, "no_url")
    /\ UNCHANGED <<catalog, returned_ids>>
    /\ PipeFrame

\* Step 5: get_or_create_model("Gemini 2.5 Flash Image").
PIP_Model ==
    /\ p.pc = "model"
    /\ LET found == SelectModel(GeneratorName) IN
       \/ \* the select raises
          /\ Fault
          /\ p' = Did(Raise(p, "persist"), "select_model", GeneratorName, "fail")
          /\ UNCHANGED <<models, returned_ids>>
       \/ /\ found # <<>>
          /\ NoFault
          /\ p' = Did([Proceed(p) EXCEPT !.model_id = found[1].id],
                       "select_model", GeneratorName, "ok")
          /\ returned_ids' = returned_ids \cup {<<"models", GeneratorName, found[1].id>>}
          /\ UNCHANGED models
       \/ /\ found = <<>>
          /\ NoFault
          /\ models' = Append(models, ModelRow(GeneratorName))
          /\ p' = Did(Did([Proceed(p) EXCEPT !.model_id = ModelRow(GeneratorName).id],
                           "select_model", GeneratorName, "ok"),
                       "insert_model", GeneratorName, "ok")
          /\ returned_ids' = returned_ids \cup
                 {<<"models", GeneratorName, ModelRow(GeneratorName).id>>}
       \/ \* the insert raises or returns no row
          /\ found = <<>>
          /\ Fault
          /\ p' = Did(Did(Raise(p, "persist"), "select_model", GeneratorName, "ok"),
                       "insert_model", GeneratorName, "fail")
          /\ UNCHANGED <<models, returned_ids>>
    /\ UNCHANGED <<games, files, file_pairs, blobs, clock>>
    /\ PipeFrame

\* The two rows of step 6.
RealFileRow(f) == FileRow(f.real_image_url, "real", None, NoPrompt)

GeneratedFileRow(f) ==
    FileRow(f.generated_image_public_url, "generated", f.model_id, f.prompt)

\* Step 6, first insert: insert_file_record(real_image_url, "real", None, None).
PIP_InsertReal ==
    /\ p.pc = "insert_real"
    /\ \/ /\ NoFault
          /\ files' = Append(files, RealFileRow(p))
          /\ p' = Did([Proceed(p) EXCEPT !.real_file_id = RealFileRow(p).id],
                       "insert_file", FileData(RealFileRow(p)), "ok")
       \/ /\ Fault
          /\ p' = Did(Raise(p, "persist"), "insert_file", FileData(RealFileRow(p)), "fail")
          /\ UNCHANGED files
    /\ UNCHANGED <<models, games, file_pairs, blobs, clock, returned_ids>>
    /\ PipeFrame

\* Step 6, second insert, deleting the real File row again when it fails.
PIP_InsertGeneratedRollback ==
    /\ p.pc = "insert_generated"
    /\ \/ /\ NoFault
          /\ files' = Append(files, GeneratedFileRow(p))
          /\ p' = Did([Proceed(p) EXCEPT
                         !.generated_file_id = GeneratedFileRow(p).id,
                         !.result = [realFileId |-> p.real_file_id,
                                     generatedFileId |-> GeneratedFileRow(p).id,
                                     prompt |-> p.prompt]],
                       "insert_file", FileData(GeneratedFileRow(p)), "ok")
       \/ /\ Fault
          /\ p' = Did(Raise(p, "persist"), "insert_file",
                       FileData(GeneratedFileRow(p)), "fail")
          /\ files' = SubSeq(files, 1, p.pre.files)
    /\ UNCHANGED <<models, games, file_pairs, blobs, clock, returned_ids>>
    /\ PipeFrame

\* Step 6, second insert, and the result dict.
PIP_InsertGenerated ==
    /\ p.pc = "insert_generated"
    /\ \/ /\ NoFault
          /\ files' = Append(files, GeneratedFileRow(p))
          /\ p' = Did([Proceed(p) EXCEPT
                         !.generated_file_id = GeneratedFileRow(p).id,
                         !.result = [realFileId |-> p.real_file_id,
                                     generatedFileId |-> GeneratedFileRow(p).id,
                                     prompt |-> p.prompt]],
                       "insert_file", FileData(GeneratedFileRow(p)), "ok")
       \/ /\ Fault
          /\ p' = Did(Raise(p, "persist"), "insert_file",
                       FileData(GeneratedFileRow(p)), "fail")
          /\ UNCHANGED files
    /\ UNCHANGED <<models, games, file_pairs, blobs, clock, returned_ids>>
    /\ PipeFrame

\* Step 7 without its `if game_id:`.
WantsFilePairAlways(game_id) == TRUE

\* `if game_id:` of step 7.
WantsFilePair(game_id) == Truthy(game_id)

\* create_file_pair called with its two file ids exchanged.
PairRowOfSwapped(f) == FilePairRow(f.generated_file_id, f.real_file_id, f.game_id)

\* The row create_file_pair inserts for the run.
PairRowOf(f) == FilePairRow(f.real_file_id, f.generated_file_id, f.game_id)

\* Step 7: create_file_pair when a game id was given; then return result.
PIP_FilePair ==
    /\ p.pc = "file_pair"
    /\ \/ /\ WantsFilePair(p.game_id)
          /\ NoFault
          /\ file_pairs' = Append(file_pairs, PairRowOf(p))
          /\ p' = Did([Proceed(p) EXCEPT
                         !.result = [realFileId |-> p.real_file_id,
                                     generatedFileId |-> p.generated_file_id,
                                     prompt |-> p.prompt,
                                     filePairId |-> PairRowOf(p).id]],
                       "insert_file_pair", p.game_id, "ok")
       \/ /\ WantsFilePair(p.game_id)
          /\ Fault
          /\ p' = Did(Raise(p, "persist"), "insert_file_pair", p.game_id, "fail")
          /\ UNCHANGED file_pairs
       \/ /\ ~WantsFilePair(p.game_id)
          /\ NoFault
          /\ p' = [p EXCEPT !.pc = StepAfter(p.pc)]
          /\ UNCHANGED file_pairs
    /\ UNCHANGED <<models, games, files, blobs, clock, returned_ids>>
    /\ PipeFrame

\* -------------------------------------------- process_images_for_game
\* The call process_images_for_game(game_date, image_urls); base is the
\* position of image_urls[1] in the pool, minus one (history only).
CallGame(game_date, image_urls, base) ==
    [IdleG EXCEPT !.pc = "get_game", !.game_date = game_date,
                  !.image_urls = image_urls, !.base = base, !.pre = Snapshot]

\* try: game_id = get_or_create_game(game_date); except: raise Exception(...)
PIG_GetOrCreateGame ==
    /\ g.pc = "get_game"
    /\ LET found == SelectGame(g.game_date) IN
       \/ \* the select raises
          /\ Fault
          /\ g' = [g EXCEPT !.pc = "raised"]
          /\ events' = Append(events, <<"nogame", g.game_date>>)
          /\ UNCHANGED <<games, returned_ids>>
       \/ /\ found # <<>>
          /\ NoFault
          /\ g' = [g EXCEPT !.pc = "loop", !.game_id = found[1].id]
          /\ returned_ids' = returned_ids \cup {<<"games", g.game_date, found[1].id>>}
          /\ events' = Append(events, <<"game", g.game_date>>)
          /\ UNCHANGED games
       \/ /\ found = <<>>
          /\ NoFault
          /\ games' = Append(games, GameRow(g.game_date))
          /\ g' = [g EXCEPT !.pc = "loop", !.game_id = GameRow(g.game_date).id]
          /\ returned_ids' = returned_ids \cup
                 {<<"games", g.game_date, GameRow(g.game_date).id>>}
          /\ events' = Append(events, <<"game", g.game_date>>)
       \/ \* the insert raises or returns no row
          /\ found = <<>>
          /\ Fault
          /\ g' = [g EXCEPT !.pc = "raised"]
          /\ events' = Append(events, <<"nogame", g.game_date>>)
          /\ UNCHANGED <<games, returned_ids>>
    /\ UNCHANGED <<models, files, file_pairs, blobs, clock, m, p, invocations, attempts>>
    /\ UNCHANGED <<scrape, callers, ap>>

\* The for loop over enumerate(image_urls, 1) has no element left.
LoopDone(f) == f.img_idx >= Len(f.image_urls)

\* The loop going through image_urls from its end.
LoopUrlFromEnd(f) == f.image_urls[Len(f.image_urls) - f.img_idx]

\* for img_idx, url in enumerate(image_urls, 1): the url of the next round.
LoopUrl(f) == f.image_urls[f.img_idx + 1]

\* Loop head: the next url, and the call process_image_pair(url, game_id=game_id).
PIG_StartRun ==
    /\ g.pc = "loop"
    /\ ~LoopDone(g)
    /\ g' = [g EXCEPT !.pc = "running", !.img_idx = @ + 1]
    /\ p' = CallPair(LoopUrl(g), g.game_id)
    /\ attempts' = [attempts EXCEPT ![g.base + g.img_idx + 1] = @ + 1]
    /\ events' = Append(events, <<"run", g.base + g.img_idx + 1>>)
    /\ UNCHANGED <<catalog, blobs, clock, m, faults, invocations, returned_ids>>
    /\ UNCHANGED <<scrape, callers, ap>>

\* processed_count += 1 outside the try.
CountsAsProcessedAlways(f) == TRUE

\* The try body after the call counts the run as processed: the call
\* returned and result['filePairId'] can be printed.
CountsAsProcessed(f) == f.pc = "returned" /\ "filePairId" \in DOMAIN f.result

\* if img_idx < len(image_urls): time.sleep(2)
Throttle(idx, n) == IF idx < n THEN <<<<"sleep", 2>>>> ELSE <<>>

\* Loop body after the call: processed_count += 1, or the except clause; then
\* the delay.
PIG_Tally ==
    /\ g.pc = "running"
    /\ p.pc \in {"returned", "raised"}
    /\ g' = [g EXCEPT
               !.pc = "loop",
               !.processed_count = IF CountsAsProcessed(p) THEN @ + 1 ELSE @,
               !.failed_count = IF CountsAsProcessed(p) THEN @ ELSE @ + 1,
               !.ok_runs = IF p.pc = "returned" THEN @ + 1 ELSE @]
    /\ p' = IdleP
    /\ events' = events \o <<<<"end", g.base + g.img_idx>>>>
                        \o Throttle(g.img_idx, Len(g.image_urls))
    /\ UNCHANGED <<catalog, blobs, clock, m, faults, invocations, attempts, returned_ids>>
    /\ UNCHANGED <<scrape, callers, ap>>

\* return {"game_id": ..., "processed_count": ..., "failed_count": ...}
PIG_Return ==
    /\ g.pc = "loop"
    /\ LoopDone(g)
    /\ g' = [g EXCEPT !.pc = "returned"]
    /\ UNCHANGED <<catalog, blobs, clock, m, p, faults, invocations, attempts, events,
                returned_ids>>
    /\ UNCHANGED <<scrape, callers, ap>>

\* ------------------------------------------------------------ __main__
\* get_week_dates(days_ahead, num_days): consecutive day numbers.
get_week_dates(days_ahead, num_days) ==
    [i \in 1..num_days |-> Today + days_ahead + (i - 1)]

\* What scrape_images_from_random_categories(total_needed) can return to the
\* entry point (the scrape itself is modelled by the Scrape actions below):
\* a list of total_needed URLs, with repeats (the scrape does not compare
\* the categories' results) when it is longer than the universe of NumUrls
\* source URLs; empty when total_needed <= 0.
Pools(total_needed) ==
    IF total_needed <= 0 THEN {<<>>}
    ELSE {[i \in 1..total_needed |-> Url(1 + ((i - 1) % NumUrls))]}

\* start_idx computed from the 1-based day_idx.
DaySliceOneBased(all_image_urls, day_idx, images_per_day) ==
    LET start_idx == day_idx * images_per_day
        end_idx == start_idx + images_per_day
    IN PySlice(all_image_urls, start_idx, end_idx)

\* day_urls = all_image_urls[start_idx:end_idx] of day day_idx.
DaySlice(all_image_urls, day_idx, images_per_day) ==
    LET start_idx == (day_idx - 1) * images_per_day
        end_idx == start_idx + images_per_day
    IN PySlice(all_image_urls, start_idx, end_idx)

\* ------------------------------------------------------------ command line
\* sys.argv: a sequence of tokens, each a sequence of characters (an option
\* name after its two dashes is kept as one piece).
Prog == <<"image.py">>
ModeToken(name) == <<"-", "-", name>>
CountFlag == ModeToken("count")
Digits == <<"0", "1", "2", "3", "4", "5", "6", "7", "8", "9">>

\* sys.argv[i], counted from 0.
Arg(argv, i) == argv[i + 1]

\* mode.startswith("--")
StartsWithDashes(tok) == Len(tok) >= 2 /\ tok[1] = "-" /\ tok[2] = "-"

IsDigit(c) == \E k \in 1..10 : Digits[k] = c
DigitVal(c) == (CHOOSE k \in 1..10 : Digits[k] = c) - 1
AllDigits(text) == Len(text) >= 1 /\ \A i \in 1..Len(text) : IsDigit(text[i])

RECURSIVE NatVal(_)
NatVal(text) ==
    IF text = <<>> THEN 0
    ELSE 10 * NatVal(SubSeq(text, 1, Len(text) - 1)) + DigitVal(text[Len(text)])

\* int(text): the value, or ValueError when IntOk is false.
IntOk(text) ==
    \/ AllDigits(text)
    \/ Len(text) >= 2 /\ text[1] = "-" /\ AllDigits(Tail(text))
IntOf(text) == IF text[1] = "-" THEN 0 - NatVal(Tail(text)) ELSE NatVal(text)

\* str(n) for the small numbers put on the command line.
IntText(n) == IF n < 0 THEN <<"-", Digits[1 - n]>> ELSE <<Digits[n + 1]>>

\* The pieces of text between its "-" characters.
RECURSIVE SplitDash(_)
SplitDash(text) ==
    LET dashes == {i \in 1..Len(text) : text[i] = "-"} IN
    IF dashes = {} THEN <<text>>
    ELSE LET k == CHOOSE i \in dashes : \A j \in dashes : i <= j
         IN <<SubSeq(text, 1, k - 1)>> \o SplitDash(SubSeq(text, k + 1, Len(text)))

DaysInMonth(year, month) ==
    IF month = 2
    THEN IF year % 4 = 0 /\ (year % 100 # 0 \/ year % 400 = 0) THEN 29 ELSE 28
    ELSE IF month \in {4, 6, 9, 11} THEN 30 ELSE 31

\* datetime.strptime(text, '%Y-%m-%d') returns (no ValueError): %Y is four
\* digits, %m and %d are one or two digits, and the day exists.
StrptimeOk(text) ==
    LET f == SplitDash(text) IN
    /\ Len(f) = 3
    /\ Len(f[1]) = 4 /\ AllDigits(f[1]) /\ NatVal(f[1]) >= 1
    /\ Len(f[2]) \in 1..2 /\ AllDigits(f[2]) /\ NatVal(f[2]) \in 1..12
    /\ Len(f[3]) \in 1..2 /\ AllDigits(f[3])
    /\ NatVal(f[3]) \in 1..DaysInMonth(NatVal(f[1]), NatVal(f[2]))

\* The year of datetime.now(); Today is its 1 January.
ThisYear == 2025

\* The day number the games table takes a date text of ThisYear for.
DateNumber(text) ==
    LET f == SplitDash(text)
        month == NatVal(f[2])
        RECURSIVE Before(_)
        Before(k) == IF k = 0 THEN 0 ELSE DaysInMonth(ThisYear, k) + Before(k - 1)
    IN Today + Before(month - 1) + NatVal(f[3]) - 1

\* The argument loop of --scrape / --scrape-and-process, from sys.argv[i].
RECURSIVE ScrapeArgs(_, _, _, _)
ScrapeArgs(argv, i, images_per_category, categories) ==
    IF ~(i < Len(argv))
    THEN [ok |-> TRUE, images_per_category |-> images_per_category,
          categories |-> categories]
    ELSE IF Arg(argv, i) = CountFlag /\ i + 1 < Len(argv)
    THEN IF IntOk(Arg(argv, i + 1))
         THEN ScrapeArgs(argv, i + 2, IntOf(Arg(argv, i + 1)), categories)
         ELSE [ok |-> FALSE, images_per_category |-> images_per_category,
               categories |-> categories]
    ELSE ScrapeArgs(argv, i + 1, images_per_category,
                    Append(categories, Arg(argv, i)))

\* The argument loop of --create-day, from sys.argv[i]: other tokens are
\* ignored with a warning.
RECURSIVE DayArgs(_, _, _)
DayArgs(argv, i, image_count) ==
    IF ~(i < Len(argv))
    THEN [ok |-> TRUE, image_count |-> image_count]
    ELSE IF Arg(argv, i) = CountFlag /\ i + 1 < Len(argv)
    THEN IF IntOk(Arg(argv, i + 1))
         THEN DayArgs(argv, i + 2, IntOf(Arg(argv, i + 1)))
         ELSE [ok |-> FALSE, image_count |-> image_count]
    ELSE DayArgs(argv, i + 1, image_count)

\* The branch of the if/elif chain of __main__ that sys.argv ends in.
Branch(argv) ==
    IF Len(argv) < 2 THEN "usage"
    ELSE LET mode == Arg(argv, 1) IN
    IF ~StartsWithDashes(mode) THEN "single"
    ELSE IF mode \in {ModeToken("scrape"), ModeToken("scrape-and-process")}
    THEN LET a == ScrapeArgs(argv, 2, 10, <<>>) IN
         IF ~a.ok THEN "value_error"
         ELSE IF a.categories = <<>> THEN "no_category"
         ELSE mode[3]
    ELSE IF mode = ModeToken("create-week") THEN "create-week"
    ELSE IF mode = ModeToken("create-day")
    THEN IF Len(argv) < 3 THEN "no_date"
         ELSE IF ~StrptimeOk(Arg(argv, 2)) THEN "bad_date"
         ELSE IF ~DayArgs(argv, 3, 10).ok THEN "value_error"
         ELSE "create-day"
    ELSE "unknown"

\* The branches that end the process before any work is done.
Rejections == {"usage", "no_category", "no_date", "bad_date", "unknown",
               "value_error"}

\* The unknown-mode branch without its sys.exit(1): the script ends, status 0.
ExitStatusFallThrough(branch) == IF branch = "unknown" THEN 0 ELSE 1

\* sys.exit(1) of each rejecting branch; an uncaught ValueError of int()
\* ends the interpreter with status 1 as well.
ExitStatus(branch) == 1

\* Date texts on the command line: 3 January written two ways, and texts
\* that are no date.
GoodDates == {<<"2", "0", "2", "5", "-", "0", "1", "-", "0", "3">>,
              <<"2", "0", "2", "5", "-", "1", "-", "3">>}
BadDates == {<<"2", "0", "2", "5", "-", "1", "3", "-", "0", "1">>,
             <<"2", "0", "2", "5", "-", "0", "2", "-", "3", "0">>,
             <<"0", "3", "-", "0", "1", "-", "2", "0", "2", "5">>,
             <<"tomorrow">>}

\* The command lines tried.
Argvs ==
    {<<Prog>>, <<Prog, ModeToken("bogus")>>, <<Prog, ModeToken("create-day")>>}
    \cup {<<Prog, ModeToken(mode)>> \o rest :
            mode \in {"scrape", "scrape-and-process"},
            rest \in {<<>>, <<CountFlag, IntText(1)>>}}
    \cup {<<Prog, ModeToken("create-day"), date, CountFlag, IntText(n)>> :
            date \in GoodDates \cup BadDates, n \in 0..MaxCount}
    \cup {<<Prog, ModeToken("create-day"), date, CountFlag, <<"many">>>> :
            date \in GoodDates}

NewInvocation ==
    /\ m.pc \in {"start", "exited"}
    /\ invocations < MaxInvocations
    /\ invocations' = invocations + 1

\* --create-week up to the day loop: dates, discovery of 7 * images_per_day URLs.
Week_Begin ==
    /\ m.pc = "start"
    /\ invocations' = invocations + 1
    /\ \E images_per_day \in {-1} \cup (0..MaxPerDay) :
         LET week_dates == get_week_dates(DefaultStartOffset, NumDays)
             total_images_needed == NumDays * images_per_day
         IN \/ \* discovery raises: except ... sys.exit(1)
               /\ images_per_day > 0
               /\ Fault
               /\ m' = [IdleM EXCEPT !.pc = "exited", !.mode = "week",
                                     !.exit_code = 1, !.reached = "except",
                                     !.images_per_day = images_per_day,
                                     !.week_dates = week_dates]
               /\ attempts' = <<>>
               /\ events' = <<>>
            \/ \E pool \in Pools(total_images_needed) :
                 /\ NoFault
                 /\ m' = [IdleM EXCEPT !.pc = "week_loop", !.mode = "week",
                                       !.images_per_day = images_per_day,
                                       !.week_dates = week_dates,
                                       !.all_image_urls = pool]
                 /\ attempts' = [i \in 1..Len(pool) |-> 0]
                 /\ events' = <<>>
    /\ UNCHANGED <<catalog, blobs, clock, g, p, returned_ids>>
    /\ UNCHANGED <<scrape, callers, ap>>

\* The day loop stopping at the first day that had a failure.
WeekLoopDoneOnFailure(f) == f.day_idx >= Len(f.week_dates) \/ f.total_failed > 0

\* The for loop over enumerate(week_dates, 1) has no date left.
WeekLoopDone(f) == f.day_idx >= Len(f.week_dates)

\* Loop head of `for day_idx, game_date in enumerate(week_dates, 1)`.
Week_NextDay ==
    /\ m.pc = "week_loop"
    /\ ~WeekLoopDone(m)
    /\ LET day_idx == m.day_idx + 1
           day_urls == DaySlice(m.all_image_urls, day_idx, m.images_per_day)
       IN /\ m' = [m EXCEPT !.pc = "week_wait", !.day_idx = day_idx]
          /\ g' = CallGame(m.week_dates[day_idx], day_urls,
                           (day_idx - 1) * m.images_per_day)
    /\ UNCHANGED <<catalog, blobs, clock, p, faults, invocations, attempts, events,
                returned_ids>>
    /\ UNCHANGED <<scrape, callers, ap>>

\* The except clause of the day loop counting nothing.
FailedDayCountNone(day_urls) == 0

\* except: total_failed += len(day_urls)
FailedDayCount(day_urls) == Len(day_urls)

\* The totals after process_images_for_game returned or raised.
Week_DayDone ==
    /\ m.pc = "week_wait"
    /\ g.pc \in {"returned", "raised"}
    /\ m' = IF g.pc = "returned"
            THEN [m EXCEPT !.pc = "week_loop",
                           !.total_processed = @ + g.processed_count,
                           !.total_failed = @ + g.failed_count]
            ELSE [m EXCEPT !.pc = "week_loop",
                           !.total_failed = @ + FailedDayCount(g.image_urls),
                           !.failed_days = @ \cup {m.day_idx}]
    /\ g' = IdleG
    /\ UNCHANGED <<catalog, blobs, clock, p, faults, invocations, attempts, events,
                returned_ids>>
    /\ UNCHANGED <<scrape, callers, ap>>

\* After the last day: the summary and sys.exit(0).
Week_Exit ==
    /\ m.pc = "week_loop"
    /\ WeekLoopDone(m)
    /\ m' = [m EXCEPT !.pc = "exited", !.exit_code = 0, !.reached = "end"]
    /\ UNCHANGED <<catalog, blobs, clock, g, p, faults, invocations, attempts, events,
                returned_ids>>
    /\ UNCHANGED <<scrape, callers, ap>>

\* A command line that ends in one of the rejecting branches.
Cli_Reject ==
    /\ NewInvocation
    /\ \E argv \in Argvs :
         /\ Branch(argv) \in Rejections
         /\ m' = [IdleM EXCEPT !.pc = "exited", !.mode = Branch(argv),
                               !.exit_code = ExitStatus(Branch(argv)),
                               !.argv = argv, !.reached = "reject"]
    /\ attempts' = <<>>
    /\ events' = <<>>
    /\ UNCHANGED <<catalog, blobs, clock, g, p, faults, returned_ids>>
    /\ UNCHANGED <<scrape, callers, ap>>

\* --create-day <date> [--count N] up to the call of process_images_for_game.
Day_Begin ==
    /\ NewInvocation
    /\ \E argv \in Argvs :
         /\ Branch(argv) = "create-day"
         /\ LET game_date == DateNumber(Arg(argv, 2))
                image_count == DayArgs(argv, 3, 10).image_count
            IN \/ /\ image_count > 0
                  /\ Fault
                  /\ m' = [IdleM EXCEPT !.pc = "exited", !.mode = "day",
                                        !.exit_code = 1, !.argv = argv,
                                        !.reached = "except"]
                  /\ attempts' = <<>>
                  /\ events' = <<>>
                  /\ UNCHANGED g
               \/ \E image_urls \in Pools(image_count) :
                    /\ NoFault
                    /\ m' = [IdleM EXCEPT !.pc = "day_wait", !.mode = "day",
                                          !.all_image_urls = image_urls,
                                          !.argv = argv]
                    /\ attempts' = [i \in 1..Len(image_urls) |-> 0]
                    /\ events' = <<>>
                    /\ g' = CallGame(game_date, image_urls, 0)
    /\ UNCHANGED <<catalog, blobs, clock, p, returned_ids>>
    /\ UNCHANGED <<scrape, callers, ap>>

\* --create-day after the call: sys.exit(0), or the except clause and sys.exit(1).
Day_Done ==
    /\ m.pc = "day_wait"
    /\ g.pc \in {"returned", "raised"}
    /\ m' = IF g.pc = "returned"
            THEN [m EXCEPT !.pc = "exited", !.exit_code = 0,
                           !.total_processed = g.processed_count,
                           !.total_failed = g.failed_count,
                           !.reached = "end"]
            ELSE [m EXCEPT !.pc = "exited", !.exit_code = 1,
                           !.reached = "except"]
    /\ g' = IdleG
    /\ UNCHANGED <<catalog, blobs, clock, p, faults, invocations, attempts, events,
                returned_ids>>
    /\ UNCHANGED <<scrape, callers, ap>>

\* Mode 1, a bare URL: process_image_pair(image_url).
Single_Begin ==
    /\ NewInvocation
    /\ m' = [IdleM EXCEPT !.pc = "single_wait", !.mode = "single"]
    /\ p' = CallPair(Url(1), None)
    /\ attempts' = <<>>
    /\ events' = <<>>
    /\ UNCHANGED <<catalog, blobs, clock, g, faults, returned_ids>>
    /\ UNCHANGED <<scrape, callers, ap>>

\* Mode 1 after the call: sys.exit(0), or sys.exit(1).
Single_Done ==
    /\ m.pc = "single_wait"
    /\ p.pc \in {"returned", "raised"}
    /\ m' = [m EXCEPT !.pc = "exited",
                      !.exit_code = IF p.pc = "returned" THEN 0 ELSE 1,
                      !.reached = IF p.pc = "returned" THEN "end" ELSE "except"]
    /\ p' = IdleP
    /\ UNCHANGED <<catalog, blobs, clock, g, faults, invocations, attempts, events,
                returned_ids>>
    /\ UNCHANGED <<scrape, callers, ap>>

\* --scrape-and-process with two categories: what scrape_multiple_categories
\* returned, per category (a category whose scrape raised has []).
BatchArgvs ==
    {<<Prog, ModeToken("scrape-and-process"), <<"people">>, <<"animals">>,
       CountFlag, IntText(n)>> : n \in 0..MaxPerCategory}

CategoryResults(images_per_category) ==
    UNION {Pools(k) : k \in 0..images_per_category}

\* Pool position of the idx-th url of category cat_idx.
RECURSIVE PositionBase(_, _)
PositionBase(results, cat_idx) ==
    IF cat_idx <= 1 THEN 0
    ELSE PositionBase(results, cat_idx - 1) + Len(results[cat_idx - 1])

\* Modes 2 & 3 up to the processing loops.
SP_Begin ==
    /\ m.pc = "start"
    /\ invocations' = invocations + 1
    /\ \E argv \in BatchArgvs :
         /\ Branch(argv) = "scrape-and-process"
         /\ LET a == ScrapeArgs(argv, 2, 10, <<>>) IN
            \E results \in [1..Len(a.categories) ->
                               CategoryResults(a.images_per_category)] :
              /\ m' = [IdleM EXCEPT !.pc = "sp_loop", !.mode = "scrape-and-process",
                                    !.argv = argv, !.results = results,
                                    !.cat_idx = 1]
              /\ attempts' = [i \in 1..PositionBase(results, Len(results) + 1) |-> 0]
    /\ events' = <<>>
    /\ UNCHANGED <<catalog, blobs, clock, g, p, faults, returned_ids>>
    /\ UNCHANGED <<scrape, callers, ap>>

SP_CategoryDone(f) == f.idx >= Len(f.results[f.cat_idx])

\* for idx, url in enumerate(urls, 1): result = process_image_pair(url)
SP_StartRun ==
    /\ m.pc = "sp_loop"
    /\ m.cat_idx <= Len(m.results)
    /\ ~SP_CategoryDone(m)
    /\ m' = [m EXCEPT !.pc = "sp_running", !.idx = @ + 1]
    /\ p' = CallPair(m.results[m.cat_idx][m.idx + 1], None)
    /\ LET position == PositionBase(m.results, m.cat_idx) + m.idx + 1 IN
       /\ attempts' = [attempts EXCEPT ![position] = @ + 1]
       /\ events' = Append(events, <<"run", position>>)
    /\ UNCHANGED <<catalog, blobs, clock, g, faults, invocations, returned_ids>>
    /\ UNCHANGED <<scrape, callers, ap>>

\* processed_count += 1, or the except clause; then the delay.
SP_Tally ==
    /\ m.pc = "sp_running"
    /\ p.pc \in {"returned", "raised"}
    /\ m' = [m EXCEPT
               !.pc = "sp_loop",
               !.total_processed = IF p.pc = "returned" THEN @ + 1 ELSE @,
               !.total_failed = IF p.pc = "returned" THEN @ ELSE @ + 1]
    /\ p' = IdleP
    /\ events' = events
                  \o <<<<"end", PositionBase(m.results, m.cat_idx) + m.idx>>>>
                  \o Throttle(m.idx, Len(m.results[m.cat_idx]))
    /\ UNCHANGED <<catalog, blobs, clock, g, faults, invocations, attempts, returned_ids>>
    /\ UNCHANGED <<scrape, callers, ap>>

\* for category, urls in results.items(): the next category.
SP_NextCategory ==
    /\ m.pc = "sp_loop"
    /\ m.cat_idx <= Len(m.results)
    /\ SP_CategoryDone(m)
    /\ m' = [m EXCEPT !.cat_idx = @ + 1, !.idx = 0]
    /\ UNCHANGED <<catalog, blobs, clock, g, p, faults, invocations, attempts, events,
                returned_ids>>
    /\ UNCHANGED <<scrape, callers, ap>>

\* "Processing Complete", sys.exit(0).
SP_Exit ==
    /\ m.pc = "sp_loop"
    /\ m.cat_idx > Len(m.results)
    /\ m' = [m EXCEPT !.pc = "exited", !.exit_code = 0, !.reached = "end"]
    /\ UNCHANGED <<catalog, blobs, clock, g, p, faults, invocations, attempts, events,
                returned_ids>>
    /\ UNCHANGED <<scrape, callers, ap>>

\* Command invocations of --create-day and single-URL mode, one after another.
Next ==
    \/ PIP_Download
    \/ PIP_Describe
    \/ PIP_Generate
    \/ PIP_Upload
    \/ PIP_Model
    \/ PIP_InsertReal
    \/ PIP_InsertGenerated
    \/ PIP_FilePair
    \/ PIG_GetOrCreateGame
    \/ PIG_StartRun
    \/ PIG_Tally
    \/ PIG_Return
    \/ Day_Begin
    \/ Day_Done
    \/ Single_Begin
    \/ Single_Done
    \/ Cli_Reject

Spec == Init /\ [][Next]_vars

\* One invocation of --create-week, on a catalog earlier invocations may have
\* left a Model and the first day's Game in.
InitWeek ==
    /\ sr = IdleSR
    /\ sc = IdleSC
    /\ models \in {<<>>, <<[id |-> 1, name |-> GeneratorName]>>}
    /\ games \in {<<>>, <<[id |-> 1, date |-> Today + DefaultStartOffset]>>}
    /\ files = <<>>
    /\ file_pairs = <<>>
    /\ blobs = {}
    /\ clock = 1
    /\ m = IdleM
    /\ g = IdleG
    /\ p = IdleP
    /\ faults = 0
    /\ invocations = 0
    /\ attempts = <<>>
    /\ events = <<>>
    /\ callers = <<>>
    /\ ap = IdleAP
    /\ returned_ids = {}
    /\ sr = IdleSR
    /\ sc = IdleSC

NextWeek ==
    \/ PIP_Download
    \/ PIP_Describe
    \/ PIP_Generate
    \/ PIP_Upload
    \/ PIP_Model
    \/ PIP_InsertReal
    \/ PIP_InsertGenerated
    \/ PIP_FilePair
    \/ PIG_GetOrCreateGame
    \/ PIG_StartRun
    \/ PIG_Tally
    \/ PIG_Return
    \/ Week_Begin
    \/ Week_NextDay
    \/ Week_DayDone
    \/ Week_Exit
    \/ SP_Begin
    \/ SP_StartRun
    \/ SP_Tally
    \/ SP_NextCategory
    \/ SP_Exit

SpecWeek == InitWeek /\ [][NextWeek]_vars

\* ------------------------------------------------------ source discovery
MaxScrolls == 15
AVAILABLE_CATEGORIES ==
    <<"people", "animals", "nature", "architecture", "travel", "street-photography">>

ImagesHost == "images.unsplash.com"
PlusHost == "plus.unsplash.com"
OtherHost == "cdn.example.com"
NoQuery == ""

\* A URL of a srcset: https://<host>/<path>?<query>.
PageUrl(host, path, query) == [host |-> host, path |-> path, query |-> query]

\* The photo paths of the pages, and those that contain 'premium_photo'.
FreePaths == {"photo-1", "photo-2"}
PremiumPaths == {"premium_photo-1"}
MarkedQueries == {"ixid=premium_photo"}

Candidates ==
    {PageUrl(ImagesHost, path, q) : path \in FreePaths, q \in {NoQuery, "w=400"}}
    \cup {PageUrl(ImagesHost, "premium_photo-1", "w=400"),
          PageUrl(ImagesHost, "photo-2", "ixid=premium_photo"),
          PageUrl(PlusHost, "premium_photo-1", "w=400"),
          PageUrl(PlusHost, "photo-1", "w=400"),
          PageUrl(OtherHost, "photo-1", "w=400")}

\* The URLs re.findall extracts from the srcset of one img element.
Srcsets ==
    {<<>>} \cup {<<u>> : u \in Candidates}
    \cup {<<PageUrl(PlusHost, "premium_photo-1", "w=400"),
            PageUrl(ImagesHost, "photo-1", "w=800")>>}

\* soup.find_all('img', {'srcset': True}) after a scroll: no, one or two elements.
Pages ==
    {<<>>} \cup {<<a>> : a \in Srcsets} \cup {<<a, b>> : a, b \in Srcsets}

\* The marker test accepting the premium domain only.
IsPremiumDomainOnly(url) == url.host = PlusHost

\* 'plus.unsplash.com' in url or 'premium_photo' in url
IsPremium(url) ==
    url.host = PlusHost \/ url.path \in PremiumPaths \/ url.query \in MarkedQueries

\* url.split('?')[0]
StripQuery(url) == [url EXCEPT !.query = NoQuery]

\* The for loop over img_elements: the new value of image_urls.
RECURSIVE ScanImgs(_, _, _, _)
ScanImgs(img_elements, image_urls, existing_urls, max_images) ==
    IF img_elements = <<>> THEN image_urls
    ELSE LET urls == Head(img_elements)
             rest == Tail(img_elements)
             skip == ScanImgs(rest, image_urls, existing_urls, max_images)
         IN IF urls = <<>> THEN skip
            ELSE IF IsPremium(urls[1]) THEN skip
            ELSE IF urls[1].host # ImagesHost THEN skip
            ELSE LET url == StripQuery(urls[1]) IN
                 IF url \in image_urls THEN skip
                 ELSE IF url \in existing_urls THEN skip
                 ELSE IF Cardinality(image_urls \cup {url}) >= max_images
                      THEN image_urls \cup {url}
                      ELSE ScanImgs(rest, image_urls \cup {url}, existing_urls, max_images)

\* list(a_set): the elements in some order.
ListsOf(set) ==
    {f \in [1..Cardinality(set) -> set] : \A i, j \in 1..Cardinality(set) : f[i] = f[j] => i = j}

\* supabase.table("files").select("url").eq("source_type", "real")
RealUrlsInDatabase ==
    {files[i].url : i \in {k \in 1..Len(files) : files[k].source_type = "real"}}

\* The call scrape_unsplash_category(category_url, max_images).
CallScrape(category_url, max_images) ==
    [IdleSC EXCEPT !.pc = "begin", !.category_url = category_url,
                   !.max_images = max_images]

ScrapeFrame ==
    UNCHANGED <<catalog, blobs, clock, m, g, p, invocations, attempts, events,
                returned_ids, callers, ap>>

\* existing_urls = get_existing_urls_from_database(); driver = webdriver.Chrome(...)
SC_Begin ==
    /\ sc.pc = "begin"
    /\ \E read_ok \in BOOLEAN, browser_ok \in BOOLEAN :
         LET failures == (IF read_ok THEN 0 ELSE 1) + (IF browser_ok THEN 0 ELSE 1)
         IN /\ faults + failures <= MaxFaults
            /\ faults' = faults + failures
            /\ sc' = [sc EXCEPT
                        \* a failed read: "Continuing without duplicate checking..."
                        !.existing_urls = IF read_ok THEN RealUrlsInDatabase ELSE {},
                        !.read_failed = ~read_ok,
                        \* webdriver.Chrome raises before the try block
                        !.pc = IF browser_ok THEN "load" ELSE "raised",
                        !.driver = IF browser_ok THEN "open" ELSE "none"]
    /\ UNCHANGED sr
    /\ ScrapeFrame

\* driver.get(category_url) placed before the try: no quit when it raises.
SC_LoadOutsideTry ==
    /\ sc.pc = "load"
    /\ \/ /\ NoFault
          /\ sc' = [sc EXCEPT !.pc = "scroll"]
       \/ /\ Fault
          /\ sc' = [sc EXCEPT !.pc = "raised"]
    /\ UNCHANGED sr
    /\ ScrapeFrame

\* driver.get(category_url); on an exception: finally driver.quit(), raise.
SC_Load ==
    /\ sc.pc = "load"
    /\ \/ /\ NoFault
          /\ sc' = [sc EXCEPT !.pc = "scroll"]
       \/ /\ Fault
          /\ sc' = [sc EXCEPT !.pc = "raised", !.driver = "quit", !.quits = @ + 1]
    /\ UNCHANGED sr
    /\ ScrapeFrame

\* The loop test without its second half: while scroll_count < max_scrolls
KeepScrollingToBudget(f) == f.scroll_count < MaxScrolls

\* while scroll_count < max_scrolls and len(image_urls) < max_images
KeepScrolling(f) == f.scroll_count < MaxScrolls /\ Cardinality(f.image_urls) < f.max_images

\* One iteration of the scroll loop: scroll, parse the page, scan its images.
SC_Scroll ==
    /\ sc.pc = "scroll"
    /\ KeepScrolling(sc)
    /\ \/ \E img_elements \in Pages :
            /\ NoFault
            /\ sc' = [sc EXCEPT !.scroll_count = @ + 1,
                                !.image_urls = ScanImgs(img_elements, @, sc.existing_urls,
                                                        sc.max_images)]
       \/ \* the browser fails during the scroll
          /\ Fault
          /\ sc' = [sc EXCEPT !.pc = "raised", !.driver = "quit", !.quits = @ + 1]
    /\ UNCHANGED sr
    /\ ScrapeFrame

\* return list(image_urls)[:max_images]; finally driver.quit()
SC_Return ==
    /\ sc.pc = "scroll"
    /\ ~KeepScrolling(sc)
    /\ \E urls \in ListsOf(sc.image_urls) :
         sc' = [sc EXCEPT !.pc = "returned", !.driver = "quit", !.quits = @ + 1,
                          !.result = PySlice(urls, 0, sc.max_images)]
    /\ NoFault
    /\ UNCHANGED sr
    /\ ScrapeFrame

\* random.shuffle(categories): the orders the model follows.
Reversed(list) == [i \in 1..Len(list) |-> list[Len(list) + 1 - i]]

Shuffles(list) == {list, Reversed(list)}

\* The call scrape_images_from_random_categories(total_needed).
SR_Begin ==
    /\ sr.pc = "idle"
    /\ sc.pc = "idle"
    /\ \E total_needed \in {-1} \cup (0..MaxNeeded),
          categories \in Shuffles(AVAILABLE_CATEGORIES) :
         sr' = [IdleSR EXCEPT !.pc = "loop", !.total_needed = total_needed,
                              !.categories = categories]
    /\ NoFault
    /\ UNCHANGED sc
    /\ ScrapeFrame

\* Loop head: the next category, images_needed, the call of the scrape.
SR_NextCategory ==
    /\ sr.pc = "loop"
    /\ sr.next < Len(sr.categories)
    /\ LET category == sr.categories[sr.next + 1]
           images_needed == sr.total_needed - Len(sr.all_image_urls)
       IN /\ sr' = [sr EXCEPT !.pc = "scraping", !.next = @ + 1]
          /\ sc' = CallScrape(<<"t", category>>, images_needed)
    /\ NoFault
    /\ ScrapeFrame

\* Not the sum check of the source: never short.
ShortfallNever(all_image_urls, total_needed) == FALSE

\* len(all_image_urls) < total_needed
Shortfall(all_image_urls, total_needed) == Len(all_image_urls) < total_needed

\* Loop body after the scrape returned or raised.
SR_AfterScrape ==
    /\ sr.pc = "scraping"
    /\ sc.pc \in {"returned", "raised"}
    /\ LET urls == sc.result
           all_image_urls == IF sc.pc = "returned" /\ Len(urls) > 0
                             THEN sr.all_image_urls \o urls
                             ELSE sr.all_image_urls
           used_categories == IF sc.pc = "returned" /\ Len(urls) > 0
                              THEN Append(sr.used_categories, sr.categories[sr.next])
                              ELSE sr.used_categories
           break == sc.pc = "returned" /\ Len(all_image_urls) >= sr.total_needed
       IN sr' = [sr EXCEPT !.pc = IF break THEN "after_loop" ELSE "loop",
                           !.all_image_urls = all_image_urls,
                           !.used_categories = used_categories]
    /\ sc' = IdleSC
    /\ NoFault
    /\ ScrapeFrame

\* After the loop: raise on a shortfall, else return all_image_urls[:total_needed].
SR_Finish ==
    /\ \/ sr.pc = "after_loop"
       \/ sr.pc = "loop" /\ sr.next >= Len(sr.categories)
    /\ sr' = IF Shortfall(sr.all_image_urls, sr.total_needed)
             THEN [sr EXCEPT !.pc = "raised"]
             ELSE [sr EXCEPT !.pc = "returned",
                             !.result = PySlice(sr.all_image_urls, 0, sr.total_needed)]
    /\ NoFault
    /\ UNCHANGED sc
    /\ ScrapeFrame

\* One call of scrape_images_from_random_categories, on a catalog that holds
\* the real Files earlier runs inserted.
RealFile(id, url) ==
    [id |-> id, url |-> url, source_type |-> "real", source_id |-> None,
     prompt |-> NoPrompt]

InitScrape ==
    /\ models = <<>>
    /\ games = <<>>
    /\ files \in {<<>>,
                  <<RealFile(1, PageUrl(ImagesHost, "photo-1", NoQuery)),
                    RealFile(2, PageUrl(ImagesHost, "photo-2", "w=400"))>>}
    /\ file_pairs = <<>>
    /\ blobs = {}
    /\ clock = 1
    /\ m = IdleM
    /\ g = IdleG
    /\ p = IdleP
    /\ faults = 0
    /\ invocations = 0
    /\ attempts = <<>>
    /\ events = <<>>
    /\ callers = <<>>
    /\ ap = IdleAP
    /\ returned_ids = {}
    /\ sr = IdleSR
    /\ sc = IdleSC

NextScrape ==
    \/ SR_Begin
    \/ SR_NextCategory
    \/ SR_AfterScrape
    \/ SR_Finish
    \/ SC_Begin
    \/ SC_Load
    \/ SC_Scroll
    \/ SC_Return

SpecScrape == InitScrape /\ [][NextScrape]_vars

\* ------------------------------------------- concurrent get_or_create_*
\* Several processes running the script at once: each caller is inside one
\* call of get_or_create_game or get_or_create_model, and the select and the
\* insert are two requests to the database.
IdleCaller == [pc |-> "idle", table |-> "none", key |-> None, id |-> None,
               inserted |-> FALSE]

RaceDates == {Today + DefaultStartOffset, Today + DefaultStartOffset + 1}

RaceFrame ==
    UNCHANGED <<files, file_pairs, blobs, clock, m, g, p, invocations, attempts,
                events, returned_ids, sr, sc, ap>>

\* An insert that leaves the table alone when the key is there (a unique
\* key with "on conflict do nothing").
InsertUnlessPresent(table, found, row) == IF found # <<>> THEN table ELSE Append(table, row)

\* supabase.table(...).insert({...}).execute()
Insert(table, found, row) == Append(table, row)

\* A process calls get_or_create_game(game_date) or get_or_create_model(name).
GOC_Call ==
    \E c \in 1..MaxCallers :
      /\ callers[c].pc = "idle"
      /\ \/ \E game_date \in RaceDates :
              callers' = [callers EXCEPT ![c] = [IdleCaller EXCEPT
                            !.pc = "select", !.table = "games", !.key = game_date]]
         \/ callers' = [callers EXCEPT ![c] = [IdleCaller EXCEPT
                            !.pc = "select", !.table = "models", !.key = GeneratorName]]
      /\ UNCHANGED <<models, games, faults>>
      /\ RaceFrame

\* The select, and the return of the id that was found.
GOC_Select ==
    \E c \in 1..MaxCallers :
      /\ callers[c].pc = "select"
      /\ LET found == IF callers[c].table = "games"
                      THEN SelectGame(callers[c].key)
                      ELSE SelectModel(callers[c].key)
         IN \/ /\ Fault
               /\ callers' = [callers EXCEPT ![c].pc = "raised"]
            \/ /\ NoFault
               /\ callers' = IF found # <<>>
                             THEN [callers EXCEPT ![c].pc = "done",
                                                  ![c].id = found[1].id]
                             ELSE [callers EXCEPT ![c].pc = "insert"]
      /\ UNCHANGED <<models, games>>
      /\ RaceFrame

\* The insert after a select that found nothing, and the return of the new id.
GOC_Insert ==
    \E c \in 1..MaxCallers :
      /\ callers[c].pc = "insert"
      /\ \/ /\ Fault
            /\ callers' = [callers EXCEPT ![c].pc = "raised"]
            /\ UNCHANGED <<models, games>>
         \/ /\ NoFault
            /\ callers[c].table = "games"
            /\ games' = Insert(games, SelectGame(callers[c].key),
                               GameRow(callers[c].key))
            /\ callers' = [callers EXCEPT ![c].pc = "done", ![c].inserted = TRUE,
                                          ![c].id = GameRow(callers[c].key).id]
            /\ UNCHANGED models
         \/ /\ NoFault
            /\ callers[c].table = "models"
            /\ models' = Insert(models, SelectModel(callers[c].key),
                                ModelRow(callers[c].key))
            /\ callers' = [callers EXCEPT ![c].pc = "done", ![c].inserted = TRUE,
                                          ![c].id = ModelRow(callers[c].key).id]
            /\ UNCHANGED games
      /\ RaceFrame

\* The catalog may hold the generator's Model and a Game already.
InitRace ==
    /\ models \in {<<>>, <<[id |-> 1, name |-> GeneratorName]>>}
    /\ games \in {<<>>, <<[id |-> 1, date |-> Today + DefaultStartOffset]>>}
    /\ files = <<>>
    /\ file_pairs = <<>>
    /\ blobs = {}
    /\ clock = 1
    /\ m = IdleM
    /\ g = IdleG
    /\ p = IdleP
    /\ faults = 0
    /\ invocations = 0
    /\ attempts = <<>>
    /\ events = <<>>
    /\ callers = [c \in 1..MaxCallers |-> IdleCaller]
    /\ ap = IdleAP
    /\ returned_ids = {}
    /\ sr = IdleSR
    /\ sc = IdleSC

NextRace ==
    \/ GOC_Call
    \/ GOC_Select
    \/ GOC_Insert

SpecRace == InitRace /\ [][NextRace]_vars

\* ------------------------------- add_image_pair.py: process_image_pair
\* The instruction text its generate_image_description sends with the image.
AddDescriptionRequest == "natural, documentary style; do not overdramatize"

\* The model name its step 5 passes to get_or_create_model.
AddGeneratorName == "Gemini 2.5 Flash Image"

\* The call process_image_pair(real_image_url) of add_image_pair.py, made on
\* the stores as they are now.
AddCallPair(real_image_url) ==
    [IdleAP EXCEPT !.pc = "download", !.real_image_url = real_image_url,
                   !.models = models, !.files = files, !.blobs = blobs,
                   !.clock = clock]

\* The generated File inserted before the real one.
AddStepAfterGeneratedFirst(pc) ==
    CASE pc = "download" -> "describe"
      [] pc = "describe" -> "generate"
      [] pc = "generate" -> "upload"
      [] pc = "upload" -> "model"
      [] pc = "model" -> "insert_generated"
      [] pc = "insert_generated" -> "insert_real"
      [] pc = "insert_real" -> "returned"

\* The statements of its try block, in program order.
AddStepAfter(pc) ==
    CASE pc = "download" -> "describe"
      [] pc = "describe" -> "generate"
      [] pc = "generate" -> "upload"
      [] pc = "upload" -> "model"
      [] pc = "model" -> "insert_real"
      [] pc = "insert_real" -> "insert_generated"
      [] pc = "insert_generated" -> "returned"

\* The number its source gives to each step ("Step 1" .. "Step 6").
AddStepNo(pc) ==
    CASE pc = "download" -> 1
      [] pc = "describe" -> 2
      [] pc = "generate" -> 3
      [] pc = "upload" -> 4
      [] pc = "model" -> 5
      [] pc = "insert_real" -> 6
      [] pc = "insert_generated" -> 6

\* History: the steps the run has entered.
AddEntered(f) ==
    IF f.steps # <<>> /\ f.steps[Len(f.steps)] = AddStepNo(f.pc)
    THEN f.steps
    ELSE Append(f.steps, AddStepNo(f.pc))

AddProceed(f) == [f EXCEPT !.pc = AddStepAfter(f.pc), !.steps = AddEntered(f)]

\* `except Exception as error: ... raise`.
AddRaise(f, error) == [f EXCEPT !.pc = "raised", !.error = error, !.steps = AddEntered(f)]

\* History: the two operations of its generate_image_description once the
\* download succeeded.
AddDidDescribe(f, out) ==
    Did(Did(f, "download", f.real_image_url, "ok"), "describe", AddDescriptionRequest, out)

\* Rows as its stores number them.
AddModelRow(f, model_name) == [id |-> Len(f.models) + 1, name |-> model_name]

AddFileRow(f, url, source_type, source_id, prompt) ==
    [id |-> Len(f.files) + 1, url |-> url, source_type |-> source_type,
     source_id |-> source_id, prompt |-> prompt]

AddRealFileRow(f) == AddFileRow(f, f.real_image_url, "real", None, NoPrompt)

AddGeneratedFileRow(f) ==
    AddFileRow(f, f.generated_image_public_url, "generated", f.model_id, f.prompt)

\* Both programs meet the same collaborators: the k-th operation of this run
\* is answered as the k-th operation of image.py's run was, when that was
\* the same operation, and normally otherwise.
Answer(k, op, normal) ==
    IF k <= Len(p.ops) /\ p.ops[k][1] = op THEN p.ops[k][3] ELSE normal

Ended(f) == f.pc \in {"returned", "raised"}

PairFrame ==
    UNCHANGED <<catalog, blobs, clock, m, g, p, faults, invocations, attempts,
                events, returned_ids, scrape, callers>>

\* Step 1: download_image(real_image_url).
Add_Download ==
    /\ Ended(p)
    /\ ap.pc = "download"
    /\ LET out == Answer(Len(ap.ops) + 1, "download", "ok") IN
       ap' = Did(IF out = "ok" THEN AddProceed(ap) ELSE AddRaise(ap, "fetch"),
                 "download", ap.real_image_url, out)
    /\ PairFrame

\* Step 2: generate_image_description(real_image_url): downloads the image
\* again, calls the vision model and returns response.text.strip().
Add_Describe ==
    /\ Ended(p)
    /\ ap.pc = "describe"
    /\ LET k == Len(ap.ops) + 1
           fetch == Answer(k, "download", "ok")
           text == Answer(k + 1, "describe", NominalText)
       IN  ap' = IF fetch # "ok"
                 THEN Did(AddRaise(ap, "fetch"), "download", ap.real_image_url, fetch)
                 ELSE IF text = NoText
                 THEN AddDidDescribe(AddRaise(ap, "describe"), text)
                 ELSE AddDidDescribe([AddProceed(ap) EXCEPT !.prompt = Strip(text)], text)
    /\ PairFrame

\* Step 3: generate_image_with_imagen(prompt).
Add_Generate ==
    /\ Ended(p)
    /\ ap.pc = "generate"
    /\ LET out == Answer(Len(ap.ops) + 1, "generate", "ok") IN
       ap' = Did(IF out = "ok" THEN AddProceed(ap) ELSE AddRaise(ap, "generate"),
                 "generate", ap.prompt, out)
    /\ PairFrame

\* Step 4: upload_to_vercel_blob(bytes, "generated-<timestamp>.jpg").
Add_Upload ==
    /\ Ended(p)
    /\ ap.pc = "upload"
    /\ LET generated_image_filename == ap.clock
           out == Answer(Len(ap.ops) + 1, "upload", "ok")
           after == IF out = "ok"
                    THEN [AddProceed(ap) EXCEPT !.generated_image_public_url =
                                                    BlobUrl(generated_image_filename)]
                    ELSE AddRaise(ap, "publish")
       IN  ap' = Did([after EXCEPT
                        !.clock = @ + 1,
                        !.blobs = IF out = "rejected"
                                  THEN @
                                  ELSE @ \cup {generated_image_filename}],
                     "upload", generated_image_filename, out)
    /\ PairFrame

\* Step 5: get_or_create_model("Gemini 2.5 Flash Image").
Add_Model ==
    /\ Ended(p)
    /\ ap.pc = "model"
    /\ LET k == Len(ap.ops) + 1
           found == SelectSeq(ap.models, LAMBDA r : r.name = AddGeneratorName)
           selected == Answer(k, "select_model", "ok")
           inserted == Answer(k + 1, "insert_model", "ok")
           row == AddModelRow(ap, AddGeneratorName)
       IN  ap' = IF selected # "ok"
                 THEN Did(AddRaise(ap, "persist"), "select_model", AddGeneratorName, selected)
                 ELSE IF found # <<>>
                 THEN Did([AddProceed(ap) EXCEPT !.model_id = found[1].id],
                          "select_model", AddGeneratorName, "ok")
                 ELSE IF inserted = "ok"
                 THEN Did(Did([AddProceed(ap) EXCEPT !.model_id = row.id,
                                                     !.models = Append(@, row)],
                              "select_model", AddGeneratorName, "ok"),
                          "insert_model", AddGeneratorName, "ok")
                 ELSE Did(Did(AddRaise(ap, "persist"),
                              "select_model", AddGeneratorName, "ok"),
                          "insert_model", AddGeneratorName, inserted)
    /\ PairFrame

\* Step 6, first insert: insert_file_record(real_image_url, "real", None, None).
Add_InsertReal ==
    /\ Ended(p)
    /\ ap.pc = "insert_real"
    /\ LET out == Answer(Len(ap.ops) + 1, "insert_file", "ok")
           row == AddRealFileRow(ap)
       IN  ap' = Did(IF out = "ok"
                     THEN [AddProceed(ap) EXCEPT !.real_file_id = row.id,
                                                 !.files = Append(@, row)]
                     ELSE AddRaise(ap, "persist"),
                     "insert_file", FileData(row), out)
    /\ PairFrame

\* Step 6, second insert, and the returned dict.
Add_InsertGenerated ==
    /\ Ended(p)
    /\ ap.pc = "insert_generated"
    /\ LET out == Answer(Len(ap.ops) + 1, "insert_file", "ok")
           row == AddGeneratedFileRow(ap)
       IN  ap' = Did(IF out = "ok"
                     THEN [AddProceed(ap) EXCEPT
                             !.generated_file_id = row.id,
                             !.files = Append(@, row),
                             !.result = [realFileId |-> ap.real_file_id,
                                         generatedFileId |-> row.id,
                                         prompt |-> ap.prompt]]
                     ELSE AddRaise(ap, "persist"),
                     "insert_file", FileData(row), out)
    /\ PairFrame

\* Both scripts are called with the same URL on the same stores:
\* `python scripts/add_image_pair.py <image-url>` and
\* `python scripts/image.py <image-url>`.
Pair_Call ==
    /\ invocations < MaxInvocations
    /\ p.pc \in {"idle", "returned", "raised"}
    /\ ap.pc \in {"idle", "returned", "raised"}
    /\ invocations' = invocations + 1
    /\ \E i \in 1..NumUrls :
         /\ p' = CallPair(Url(i), None)
         /\ ap' = AddCallPair(Url(i))
    /\ UNCHANGED <<catalog, blobs, clock, m, g, faults, attempts, events,
                   returned_ids, scrape, callers>>

InitPair ==
    /\ models = <<>>
    /\ games = <<>>
    /\ files = <<>>
    /\ file_pairs = <<>>
    /\ blobs = {}
    /\ clock = 1
    /\ m = IdleM
    /\ g = IdleG
    /\ p = IdleP
    /\ faults = 0
    /\ invocations = 0
    /\ attempts = <<>>
    /\ events = <<>>
    /\ callers = <<>>
    /\ ap = IdleAP
    /\ returned_ids = {}
    /\ sr = IdleSR
    /\ sc = IdleSC

NextPair ==
    \/ Pair_Call
    \/ PIP_Download
    \/ PIP_Describe
    \/ PIP_Generate
    \/ PIP_Upload
    \/ PIP_Model
    \/ PIP_InsertReal
    \/ PIP_InsertGenerated
    \/ PIP_FilePair
    \/ Add_Download
    \/ Add_Describe
    \/ Add_Generate
    \/ Add_Upload
    \/ Add_Model
    \/ Add_InsertReal
    \/ Add_InsertGenerated

SpecPair == InitPair /\ [][NextPair]_vars

\* ================================================================ claims
\* The rows a table gained since a snapshot of its length.
Added(table, len0) == SubSeq(table, len0 + 1, Len(table))

\* C1: every successful run of process_image_pair adds exactly two File rows
\* (a real one holding the real URL and a generated one), involves exactly
\* one Model record, the one named after the generator, and adds exactly one
\* FilePair referencing both new Files and the game when a game id was given,
\* and no FilePair when none was given.
C1_SuccessfulRunRows ==
    p.pc = "returned" =>
        LET newFiles == Added(files, p.pre.files)
            newModels == Added(models, p.pre.models)
            newPairs == Added(file_pairs, p.pre.file_pairs)
        IN /\ Len(newFiles) = 2
           /\ \E i, j \in 1..Len(newFiles) :
                /\ i # j
                /\ newFiles[i].source_type = "real"
                /\ newFiles[i].url = p.real_image_url
                /\ newFiles[i].id = p.result.realFileId
                /\ newFiles[j].source_type = "generated"
                /\ newFiles[j].id = p.result.generatedFileId
                /\ newFiles[j].source_id = p.model_id
                /\ IF p.game_id # None
                   THEN /\ Len(newPairs) = 1
                        /\ newPairs[1].real_file_id = newFiles[i].id
                        /\ newPairs[1].generated_file_id = newFiles[j].id
                        /\ newPairs[1].game_id = p.game_id
                   ELSE Len(newPairs) = 0
           /\ Len(newModels) <= 1
           /\ \A k \in 1..Len(newModels) : newModels[k].name = GeneratorName
           /\ \E k \in 1..Len(models) :
                models[k].id = p.model_id /\ models[k].name = GeneratorName

C1_Witness ==
    /\ p.pc = "returned"
    /\ p.game_id # None
    /\ Len(file_pairs) = p.pre.file_pairs + 1
    /\ Len(files) = p.pre.files + 2

\* C2: get_or_create_model and get_or_create_game, called one after another,
\* return the same id for the same key every time, and the store never holds
\* two Model rows of one name or two Game rows of one date.
C2_GetOrCreateIdempotent ==
    /\ \A a, b \in returned_ids :
         (a[1] = b[1] /\ a[2] = b[2]) => a[3] = b[3]
    /\ \A i, j \in 1..Len(models) : models[i].name = models[j].name => i = j
    /\ \A i, j \in 1..Len(games) : games[i].date = games[j].date => i = j

C2_Witness ==
    /\ g.pc = "loop"
    /\ g.pre.games = 1
    /\ Len(games) = 1
    /\ <<"games", g.game_date, g.game_id>> \in returned_ids
    /\ invocations = 2

\* C3: in --create-week with images_per_day >= 0, the 7 day slices of the
\* pool are pairwise non-overlapping, each has length images_per_day, and
\* their concatenation in day order is the pool.
RECURSIVE ConcatDays(_, _, _)
ConcatDays(pool, per_day, d) ==
    IF d = 0 THEN <<>>
    ELSE ConcatDays(pool, per_day, d - 1) \o DaySlice(pool, d, per_day)

Positions(pool) == [i \in 1..Len(pool) |-> i]

Elems(seq) == {seq[i] : i \in 1..Len(seq)}

C3_DayPartition ==
    (m.mode = "week" /\ m.pc \in {"week_loop", "week_wait"} /\ m.images_per_day >= 0) =>
        LET pool == m.all_image_urls
            per_day == m.images_per_day
        IN \* the pool and per_day stay as they are while a day is processed
           /\ m.pc = "week_loop" =>
                /\ \A d \in 1..NumDays : Len(DaySlice(pool, d, per_day)) = per_day
                /\ ConcatDays(pool, per_day, NumDays) = pool
                /\ ConcatDays(Positions(pool), per_day, NumDays) = Positions(pool)
                /\ \A d1, d2 \in 1..NumDays :
                     d1 # d2 => Elems(DaySlice(Positions(pool), d1, per_day))
                                  \cap Elems(DaySlice(Positions(pool), d2, per_day)) = {}
           /\ g.pc # "idle" => g.image_urls = DaySlice(pool, m.day_idx, per_day)

C3_Witness ==
    /\ m.mode = "week"
    /\ m.images_per_day >= 1
    /\ m.day_idx = NumDays
    /\ g.pc = "running"
    /\ g.image_urls = PySlice(m.all_image_urls, Len(m.all_image_urls) - m.images_per_day,
                              Len(m.all_image_urls))

\* C4: the list one call of scrape_unsplash_category returns holds no URL
\* of the exclusion set fetched at the start of the call, no URL of the
\* premium domain or with the premium marker, and no URL twice.
C4_ScrapeResultClean ==
    sc.pc = "returned" =>
        /\ \A i \in 1..Len(sc.result) :
             /\ sc.result[i] \notin sc.existing_urls
             /\ sc.result[i].host # PlusHost
             /\ sc.result[i].path \notin PremiumPaths
             /\ sc.result[i].query \notin MarkedQueries
        /\ \A i, j \in 1..Len(sc.result) : sc.result[i] = sc.result[j] => i = j

C4_Witness ==
    /\ sc.pc = "returned"
    /\ sc.max_images = 2
    /\ sc.result = <<PageUrl(ImagesHost, "photo-2", NoQuery)>>
    /\ PageUrl(ImagesHost, "photo-1", NoQuery) \in sc.existing_urls
    /\ sc.scroll_count = MaxScrolls

\* C5 (as stated): for every N, scrape_images_from_random_categories(N)
\* returns a list of exactly N URLs or raises.
C5_ExactlyNOrRaises ==
    sr.pc = "returned" => Len(sr.result) = sr.total_needed

\* C5 (amended): for every N >= 0, scrape_images_from_random_categories(N)
\* returns a list of exactly N URLs or raises, whatever the per-category
\* scrapes return or raise; it raises only when fewer than N were collected.
\* For N < 0 it returns the empty list.
C5_ExactlyNOrRaisesNonNegative ==
    /\ (sr.pc = "returned" /\ sr.total_needed >= 0) => Len(sr.result) = sr.total_needed
    /\ (sr.pc = "returned" /\ sr.total_needed < 0) => sr.result = <<>>
    /\ sr.pc = "raised" => Len(sr.all_image_urls) < sr.total_needed

C5_Witness ==
    /\ sr.pc = "returned"
    /\ sr.total_needed = 2
    /\ Len(sr.used_categories) = 2
    /\ sr.next >= 3
    /\ faults = 1

\* C6: the pool scrape_images_from_random_categories returns consists of
\* pairwise distinct URLs, also when it comes from more than one category.
C6_PoolDistinct ==
    sr.pc = "returned" =>
        \A i, j \in 1..Len(sr.result) : sr.result[i] = sr.result[j] => i = j

\* C7: when process_images_for_game returns, processed_count + failed_count
\* is the number of URLs given, processed_count is the number of pipeline
\* runs that succeeded, and the FilePair rows added for the Game during the
\* call number processed_count.
PairsOfGame(rows, game_id) == SelectSeq(rows, LAMBDA r : r.game_id = game_id)

C7_GameReport ==
    g.pc = "returned" =>
        /\ g.processed_count + g.failed_count = Len(g.image_urls)
        /\ g.processed_count = g.ok_runs
        /\ Len(PairsOfGame(Added(file_pairs, g.pre.file_pairs), g.game_id))
             = g.processed_count

C7_Witness ==
    /\ g.pc = "returned"
    /\ g.processed_count = 1
    /\ g.failed_count = 1

\* C8 (as stated): in --create-week every URL of the pool gets exactly one
\* pipeline attempt, whichever earlier attempts failed.
C8_EveryPoolEntryAttemptedOnce ==
    (m.mode = "week" /\ m.pc = "exited" /\ m.exit_code = 0) =>
        \A i \in 1..Len(m.all_image_urls) : attempts[i] = 1

\* The day whose slice holds pool position i.
DayOfPosition(i, images_per_day) == ((i - 1) \div images_per_day) + 1

\* C8 (amended): a pipeline failure never stops the later runs: when
\* --create-week ends, every pool entry of a day whose Game was got or
\* created had exactly one pipeline attempt, whichever attempts failed, and
\* the entries of a day whose get_or_create_game failed had none.
C8_AttemptsDespiteFailures ==
    /\ \A i \in 1..Len(attempts) : attempts[i] <= 1
    /\ (m.mode = "week" /\ m.pc = "exited" /\ m.exit_code = 0) =>
         \A i \in 1..Len(m.all_image_urls) :
            attempts[i] = IF DayOfPosition(i, m.images_per_day) \in m.failed_days
                          THEN 0 ELSE 1

C8_Witness ==
    /\ m.mode = "week"
    /\ m.pc = "week_wait"
    /\ m.total_failed >= 1
    /\ m.failed_days = {}
    /\ p.pc = "download"

\* C9: every FilePair row links a real_file_id whose File is 'real' and a
\* generated_file_id whose File is 'generated'; the two are different rows.
FileById(id) == CHOOSE r \in Elems(files) : r.id = id

C9_PairLinksRealAndGenerated ==
    \A k \in 1..Len(file_pairs) :
        LET pair == file_pairs[k] IN
        /\ \E r \in Elems(files) : r.id = pair.real_file_id
        /\ \E r \in Elems(files) : r.id = pair.generated_file_id
        /\ FileById(pair.real_file_id).source_type = "real"
        /\ FileById(pair.generated_file_id).source_type = "generated"
        /\ pair.real_file_id # pair.generated_file_id

C9_Witness ==
    /\ Len(file_pairs) >= 2
    /\ p.pc = "idle"

\* C10: the steps of process_image_pair run in the order 1..7 and a failure
\* aborts the run at once: the run that raised entered no step after the
\* failing one, a failure in steps 1-3 left the blob store and the catalog
\* as they were, and a failure in step 4 left the catalog as it was.
CatalogSizes == <<Len(models), Len(games), Len(files), Len(file_pairs)>>

C10_StepsInOrderAbortAtOnce ==
    /\ \E k \in 0..7 : p.steps = [i \in 1..k |-> i]
    /\ p.pc = "raised" =>
         LET failed == p.steps[Len(p.steps)] IN
         /\ failed <= 3 => blobs = p.pre.blobs
         /\ failed <= 4 =>
              CatalogSizes = <<p.pre.models, p.pre.games, p.pre.files, p.pre.file_pairs>>
         /\ failed <= 5 => Len(files) = p.pre.files
         /\ failed <= 6 => Len(file_pairs) = p.pre.file_pairs

C10_Witness ==
    /\ p.pc = "raised"
    /\ p.steps = <<1, 2, 3, 4>>
    /\ blobs # p.pre.blobs
    /\ Len(models) >= 1

\* The File rows inserted since the run in progress was called.
RunFiles == Added(files, p.pre.files)

\* C11: process_image_pair performs no compensation.  When the insert of the
\* generated File (step 6, after the real File was inserted) or the insert of
\* the FilePair (step 7) fails, the run ends by raising, the blob uploaded by
\* the run is still in the store, the File rows the run inserted are still in
\* the table, and no FilePair row references them.
C11_NoCompensation ==
    (p.pc = "raised" /\ p.real_file_id # None) =>
        /\ p.error = "persist"
        /\ p.steps[Len(p.steps)] \in {6, 7}
        /\ \E filename \in blobs \ p.pre.blobs :
              p.generated_image_public_url = BlobUrl(filename)
        /\ \E r \in Elems(RunFiles) :
              /\ r.id = p.real_file_id
              /\ r.url = p.real_image_url
              /\ r.source_type = "real"
        /\ IF p.generated_file_id = None
           THEN Len(RunFiles) = 1
           ELSE /\ Len(RunFiles) = 2
                /\ \E r \in Elems(RunFiles) :
                      /\ r.id = p.generated_file_id
                      /\ r.url = p.generated_image_public_url
                      /\ r.source_type = "generated"
        /\ Len(file_pairs) = p.pre.file_pairs
        /\ \A fp \in Elems(file_pairs) : \A r \in Elems(RunFiles) :
              fp.real_file_id # r.id /\ fp.generated_file_id # r.id

\* The FilePair insert failed: blob and both File rows are left behind.
C11_Witness ==
    /\ p.pc = "raised"
    /\ p.steps = <<1, 2, 3, 4, 5, 6, 7>>
    /\ p.generated_file_id # None
    /\ Len(RunFiles) = 2
    /\ blobs # p.pre.blobs
    /\ Len(file_pairs) = p.pre.file_pairs

\* The run in progress is past its step 2.
PastDescribe == p.pc \notin {"idle", "download", "describe"}

\* C12: the description step fails, and the run creates no blob and no
\* catalog row, whenever the vision model call raises or returns text that is
\* empty (also when empty after trimming whitespace).
C12_EmptyDescriptionFails ==
    /\ (PastDescribe /\ p.text # NoText /\ Strip(p.text) = <<>>) =>
          /\ p.pc = "raised"
          /\ p.steps = <<1, 2>>
          /\ blobs = p.pre.blobs
          /\ CatalogSizes =
               <<p.pre.models, p.pre.games, p.pre.files, p.pre.file_pairs>>
    /\ (p.pc = "raised" /\ p.error = "describe") =>
          /\ p.steps = <<1, 2>>
          /\ blobs = p.pre.blobs
          /\ CatalogSizes =
               <<p.pre.models, p.pre.games, p.pre.files, p.pre.file_pairs>>

\* C13: in one run the real URL is fetched once, in step 1, and step 2 works
\* on those bytes, so step 2 never fails with a fetch failure.
C13_FetchedOnceInStepOne ==
    /\ p.fetches <= 1
    /\ ~(p.pc = "raised" /\ p.error = "fetch" /\ p.steps = <<1, 2>>)
\* C14: the read of the catalogued real-image URLs fails with an error on a
\* transport failure: after a failed read discovery does not go on with an
\* empty exclusion set, and so it never returns a URL that is catalogued.
C14_FailedReadStopsDiscovery ==
    /\ sc.read_failed => (sc.pc = "raised" /\ sc.image_urls = {})
    /\ sc.pc = "returned" =>
         \A i \in 1..Len(sc.result) : sc.result[i] \notin RealUrlsInDatabase
\* A date text in YYYY-MM-DD form; a --create-day command line; the exit
\* rules that do not depend on the date.
IsYMD(text) ==
    LET f == SplitDash(text) IN
    /\ Len(f) = 3
    /\ Len(f[1]) = 4 /\ Len(f[2]) = 2 /\ Len(f[3]) = 2
    /\ \A k \in 1..3 : AllDigits(f[k])

IsCreateDay(argv) == Len(argv) >= 2 /\ Arg(argv, 1) = ModeToken("create-day")

ExitRules ==
    /\ m.mode \in {"unknown", "usage", "no_category", "no_date"} => m.exit_code # 0
    /\ m.reached = "except" => m.exit_code # 0
    /\ m.exit_code = 0 => m.reached = "end"

NotSleep(e) == e[1] # "sleep"

FirstOfDay(d, per_day) == (d - 1) * per_day + 1
LastOfDay(d, per_day) == d * per_day

\* C16: the scheduler works in one fixed order.  Within a day the runs start
\* in the order of the day's slice; a run of a day has ended before the next
\* run starts, so all runs of day d end before a run of day d+1 starts; the
\* days are taken in increasing date order; and a day's Game is
\* got-or-created before the day's first run.
C16_FixedOrder ==
    (m.mode = "week" /\ m.week_dates # <<>>) =>
        LET log == SelectSeq(events, NotSleep)
            per_day == m.images_per_day
            dates == m.week_dates
        IN
        /\ \A d \in 1..(Len(dates) - 1) : dates[d] < dates[d + 1]
        /\ \A k \in 1..Len(log) :
             LET e == log[k] IN
             CASE e[1] \in {"game", "nogame"} ->
                    \E d \in 1..Len(dates) :
                      /\ dates[d] = e[2]
                      /\ IF k = 1 THEN d = 1
                         ELSE /\ d > 1
                              /\ \/ per_day > 0 /\ log[k - 1] = <<"end", LastOfDay(d - 1, per_day)>>
                                 \/ per_day <= 0 /\ log[k - 1] = <<"game", dates[d - 1]>>
                                 \/ log[k - 1] = <<"nogame", dates[d - 1]>>
               [] e[1] = "run" ->
                    /\ k > 1
                    /\ LET d == DayOfPosition(e[2], per_day) IN
                       \/ /\ e[2] = FirstOfDay(d, per_day)
                          /\ log[k - 1] = <<"game", dates[d]>>
                       \/ /\ e[2] # FirstOfDay(d, per_day)
                          /\ log[k - 1] = <<"end", e[2] - 1>>
               [] e[1] = "end" -> k > 1 /\ log[k - 1] = <<"run", e[2]>>
        /\ p.pc # "idle" =>
             /\ log # <<>>
             /\ log[Len(log)][1] = "run"
             /\ p.real_image_url = m.all_image_urls[log[Len(log)][2]]
             /\ \E row \in Elems(games) :
                  /\ row.id = p.game_id
                  /\ row.date = dates[DayOfPosition(log[Len(log)][2], per_day)]

\* A whole week of two images a day went through, no day failing.
C16_Witness ==
    /\ m.mode = "week"
    /\ m.pc = "exited"
    /\ m.images_per_day = 2
    /\ m.failed_days = {}
    /\ Len(SelectSeq(events, NotSleep)) = NumDays + 2 * (NumDays * 2)

\* A delay event; no run starts after event k.
IsSleep(e) == e[1] = "sleep"

FinalEnd(k) == \A j \in (k + 1)..Len(events) : events[j][1] # "run"

\* C17: in a batch run a throttle delay lies between every two
\* consecutive pipeline runs, also between the last image of one day or
\* category and the first image of the next, and none follows the final run.
C17_ThrottleBetweenAllRuns ==
    \A k \in 1..Len(events) :
        events[k][1] = "end" =>
            IF FinalEnd(k)
            THEN m.pc = "exited" => k = Len(events)
            ELSE IsSleep(events[k + 1])
\* The game events of the history, and the runs of day d.
GameEvents == SelectSeq(events, LAMBDA e : e[1] \in {"game", "nogame"})
RunsOfDay(d) ==
    {k \in 1..Len(events) :
        /\ events[k][1] = "run"
        /\ m.images_per_day > 0
        /\ DayOfPosition(events[k][2], m.images_per_day) = d}

WeekEnded == m.mode = "week" /\ m.pc = "exited" /\ m.reached = "end"

AllDaysVisited ==
    /\ m.day_idx = NumDays
    /\ Len(GameEvents) = NumDays
    /\ \A d \in 1..NumDays : GameEvents[d][2] = m.week_dates[d]
    /\ \A d \in 1..NumDays :
         IF GameEvents[d][1] = "nogame"
         THEN d \in m.failed_days /\ RunsOfDay(d) = {}
         ELSE d \notin m.failed_days
              /\ Cardinality(RunsOfDay(d)) = Len(DaySlice(m.all_image_urls, d,
                                                          m.images_per_day))
    /\ m.total_failed >= Cardinality(m.failed_days) *
                           (IF m.images_per_day > 0 THEN m.images_per_day ELSE 0)

\* C18 (as stated): in --create-week, once discovery returned a pool, all 7
\* dates are visited; a day whose Game cannot be got or created starts no
\* run, counts its whole slice as failed and does not stop later days; at
\* the end total_processed + total_failed = 7 x imagesPerDay.
C18_WeekTotals ==
    WeekEnded =>
        /\ AllDaysVisited
        /\ m.total_processed + m.total_failed = NumDays * m.images_per_day

\* C18 (amended): in --create-week, once discovery returned a pool, all 7
\* dates are visited; a day whose Game cannot be got or created starts no
\* run, counts its whole slice as failed and does not stop later days; at
\* the end total_processed + total_failed = 7 x imagesPerDay when
\* imagesPerDay >= 0, and 0 when imagesPerDay < 0 (the pool is then empty).
C18_WeekTotalsNonNegative ==
    WeekEnded =>
        /\ AllDaysVisited
        /\ m.total_processed + m.total_failed =
             IF m.images_per_day >= 0 THEN NumDays * m.images_per_day ELSE 0

\* The first day's Game could not be created; the six later days ran.
C18_Witness ==
    /\ WeekEnded
    /\ m.images_per_day = 2
    /\ m.failed_days = {1}
    /\ m.total_failed = 2
    /\ m.total_processed = 2 * (NumDays - 1)
\* The row a caller's returned id names.
RowsOf(c) ==
    IF callers[c].table = "games"
    THEN {r \in Elems(games) : r.id = callers[c].id /\ r.date = callers[c].key}
    ELSE {r \in Elems(models) : r.id = callers[c].id /\ r.name = callers[c].key}

InsertedBy(c) == callers[c].pc = "done" /\ callers[c].inserted

SameKey(c, d) ==
    /\ callers[c].table = callers[d].table
    /\ callers[c].key = callers[d].key

\* C19: get_or_create_game and get_or_create_model are a select followed by
\* an insert, with nothing atomic about the pair: a caller whose select found
\* no row inserts its own row whatever other callers did meanwhile, so two
\* concurrent callers for an absent key can both insert and the key then has
\* two rows.
C19_SelectThenInsertNotAtomic ==
    \A c \in DOMAIN callers :
        InsertedBy(c) =>
            /\ Cardinality(RowsOf(c)) = 1
            /\ \A d \in DOMAIN callers :
                 (d # c /\ InsertedBy(d) /\ SameKey(c, d)) =>
                     /\ callers[d].id # callers[c].id
                     /\ RowsOf(d) # RowsOf(c)

\* Both callers selected before either inserted: two Games for one date.
C19_Witness ==
    /\ callers # <<>>
    /\ InsertedBy(1) /\ InsertedBy(2)
    /\ callers[1].table = "games" /\ SameKey(1, 2)
    /\ Len(SelectGame(callers[1].key)) = 2
\* The scroll loop has been entered, or left by the return.
InScrollLoop == sc.pc \in {"scroll", "returned"}

ScrollBounds ==
    /\ sc.scroll_count <= MaxScrolls
    /\ InScrollLoop =>
         /\ sc.max_images > 0 => Cardinality(sc.image_urls) <= sc.max_images
         /\ sc.max_images <= 0 => (sc.scroll_count = 0 /\ sc.image_urls = {})
    /\ sc.pc = "returned" =>
         /\ Len(sc.result) <= (IF sc.max_images > 0 THEN sc.max_images ELSE 0)
         /\ Elems(sc.result) \subseteq sc.image_urls
         /\ \/ sc.scroll_count = MaxScrolls
            \/ Cardinality(sc.image_urls) >= sc.max_images

\* One more scroll of the loop.
ScrollStep ==
    /\ sc.pc = "scroll"
    /\ sc'.pc \in {"scroll", "raised"}
    /\ sc' # sc

\* C20: whatever the page shows, the scroll loop makes at most 15 scrolls,
\* makes no scroll once max_images unique URLs are collected, and returns at
\* most max_images URLs (fewer when the page did not yield enough, without
\* raising for that); with max_images <= 0 it makes no scroll and returns
\* the empty list.
C20_ScrollLoopBounded ==
    /\ []ScrollBounds
    /\ [][ScrollStep => (/\ sc.scroll_count < MaxScrolls
                         /\ Cardinality(sc.image_urls) < sc.max_images)]_vars

\* After 15 scrolls one URL of the two asked for: returned, not raised.
C20_Witness ==
    /\ sc.pc = "returned"
    /\ sc.max_images = 2
    /\ sc.scroll_count = MaxScrolls
    /\ Len(sc.result) = 1
\* C21: in every state of the catalog a File of source_type "real" has no
\* model reference and no prompt, and a File of source_type "generated" has a
\* model reference and a non-empty prompt, which is the description its image
\* was synthesized from.
C21_FileProvenance ==
    /\ \A r \in Elems(files) :
         IF r.source_type = "real"
         THEN r.source_id = None /\ r.prompt = NoPrompt
         ELSE /\ r.source_type = "generated"
              /\ r.source_id # None
              /\ \E row \in Elems(models) : row.id = r.source_id
              /\ r.prompt # NoPrompt
              /\ r.prompt # <<>>
    /\ (p.pc \notin {"idle", "raised"} /\ p.generated_file_id # None) =>
         FileById(p.generated_file_id).prompt = p.prompt
\* C22: once scrape_unsplash_category has started a browser session, the
\* session is quit exactly once by the time the call returns or raises, on
\* every path: target reached, scroll budget used up, page load or parse
\* failure; and it is not quit while the call is still working.
C22_SessionQuitOnce ==
    /\ sc.quits <= 1
    /\ sc.driver = "none" => sc.quits = 0
    /\ sc.pc \in {"load", "scroll"} => (sc.driver = "open" /\ sc.quits = 0)
    /\ (sc.pc \in {"returned", "raised"} /\ sc.driver # "none") =>
         (sc.driver = "quit" /\ sc.quits = 1)
    /\ sc.pc = "returned" => sc.driver = "quit"

\* The page failed after a scroll that had worked: raised, session quit once.
C22_Witness ==
    /\ sc.pc = "raised"
    /\ sc.scroll_count >= 1
    /\ sc.driver = "quit"
    /\ sc.quits = 1


\* Two logged operations: the same operation, sent the same, answered the same.
SameOp(x, y) == x[1] = y[1] /\ x[2] = y[2] /\ x[3] = y[3]

\* The same, but for the instruction text of a vision-model request.
SameOpButRequest(x, y) ==
    /\ x[1] = y[1]
    /\ x[1] = "describe" \/ x[2] = y[2]
    /\ x[3] = y[3]

\* add_image_pair.py's run has so far done what image.py's run did first.
FollowsBy(Same(_, _)) ==
    /\ Len(ap.ops) <= Len(p.ops)
    /\ \A i \in 1..Len(ap.ops) : Same(ap.ops[i], p.ops[i])

\* Both runs ended alike: same end, same steps entered, same error, same
\* rows and blobs, same returned dict; a completed run added two Files, no
\* FilePair and no Game.
SameEnd ==
    /\ Len(ap.ops) = Len(p.ops)
    /\ ap.pc = p.pc
    /\ ap.steps = p.steps
    /\ ap.error = p.error
    /\ ap.models = models
    /\ ap.files = files
    /\ ap.blobs = blobs
    /\ DOMAIN ap.result = DOMAIN p.result
    /\ ap.result = p.result
    /\ Len(file_pairs) = p.pre.file_pairs
    /\ Len(games) = p.pre.games
    /\ p.pc = "returned" =>
         /\ Len(files) = p.pre.files + 2
         /\ DOMAIN p.result = {"realFileId", "generatedFileId", "prompt"}

\* C23 as stated: called with the same URL on the same stores and given the
\* same answers by the collaborators, add_image_pair.py's process_image_pair
\* and image.py's process_image_pair with game_id = None perform the same
\* sequence of external operations, fail at the same step, leave the same
\* rows (two Files, no FilePair, no Game) and return the same keys.
C23_Equivalent ==
    (Ended(p) /\ p.game_id = None /\ ap.pc # "idle") =>
        /\ FollowsBy(SameOp)
        /\ Ended(ap) => SameEnd

\* C23 amended: the same, except that the two programs send different
\* instruction texts with the image in the vision-model request of step 2.
C23_EquivalentButRequest ==
    (Ended(p) /\ p.game_id = None /\ ap.pc # "idle") =>
        /\ FollowsBy(SameOpButRequest)
        /\ Ended(ap) => SameEnd

\* A second pair of runs, on stores that hold the model and two Files, both
\* failing at the second insert of step 6 after the real File was stored.
C23_Witness ==
    /\ Ended(p)
    /\ p.game_id = None
    /\ ap.pc = "raised"
    /\ ap.error = "persist"
    /\ ap.steps = <<1, 2, 3, 4, 5, 6>>
    /\ Len(ap.ops) = 8
    /\ Len(ap.files) = 3
    /\ ap.files[3].source_type = "real"

====
